---- MODULE Spec2Model ----
(***************************************************************************)
(* Model of src/strategies.py: one Strategy instance (Technical or         *)
(* Breakout) fed by a tick stream, its candle list, its trades, the        *)
(* ongoing_position flag and the order-status poller threads started with  *)
(* threading.Timer.  The exchange client is the environment: its replies   *)
(* (place_order, get_order_status, balances) are nondeterministic.         *)
(* Prices and quantities are integers; the percentage comparisons are      *)
(* scaled by 100 so that they are exact.                                   *)
(***************************************************************************)
EXTENDS Integers, Sequences, FiniteSets, TLC

VARIABLES strat_name, client, balance_pct, take_profit, stop_loss, min_volume,
          lot_size, candles, trades, ongoing_position,
          pc, tick_type, feed_ts, order_status, position_side,
          next_order_id, poll, poll_status, poll_count, active,
          eligible, exit_checked, exit_orders, signal_evaluated, entry_order,
          entry_failed,
          in_rsi, in_macd_line, in_macd_signal, returned,
          rpc_method, rpc_attempt, rpc_log, rpc_outcome

(* pc is the position of the feed thread: "idle", "check_trade" (after    *)
(* parse_trades returned, before check_trade(result)) or "append_trade"    *)
(* (inside _open_position, before the Trade is appended).  tick_type is    *)
(* the last value returned by parse_trades, "raised" when it raised.       *)
(* poll[o] is the state of the Timer thread of order o.  eligible,         *)
(* exit_checked, exit_orders, signal_evaluated and entry_order record what *)
(* the last tick did.  poll_count[o] counts the calls of get_order_status  *)
(* for order o that did not report it filled while its timer is running.   *)
(* active is the ON/OFF state of the strategy's row.  entry_failed holds   *)
(* from a failed entry submission until a submission succeeds or           *)
(* parse_trades returns "new_candle".                                      *)
params == <<strat_name, client, balance_pct, take_profit, stop_loss, min_volume, lot_size>>

history == <<eligible, exit_checked, exit_orders, signal_evaluated, entry_order,
             entry_failed>>

(* in_rsi, in_macd_line and in_macd_signal are indicator values given to   *)
(* _check_signal when it is applied on its own; returned is <<>> before    *)
(* the call and <<result>> after it.                                       *)
calls == <<in_rsi, in_macd_line, in_macd_signal, returned>>

(* One call of CryptoExchangeClient._rpc: the method called, the loop      *)
(* variable attempt, the answers to the requests sent so far and how the   *)
(* call ended ("running" until it ends).                                   *)
rpc == <<rpc_method, rpc_attempt, rpc_log, rpc_outcome>>

vars == <<params, candles, trades, ongoing_position,
          pc, tick_type, feed_ts, order_status, position_side,
          next_order_id, poll, poll_status, poll_count, active, history, calls, rpc>>

(* ----------------------------- bounds ---------------------------------- *)
MaxTrades == 2
MaxVolume == 2
MaxPolls == 2

(* ------------------------ program constants ---------------------------- *)
None == -1

TF_EQUIV == ("1m" :> 60) @@ ("5m" :> 300) @@ ("15m" :> 900) @@
            ("30m" :> 1800) @@ ("1h" :> 3600) @@ ("4h" :> 14400)

tf == "1m"

tf_equiv == TF_EQUIV[tf] * 1000

(* ------------------------- input domains ------------------------------- *)
Prices == {98, 100, 102}
Sizes == {0, 1}
TickTimes == {59999, 60000, 185000}
AvgPrices == {100}
ExecQtys == {2}
FreeBalances == {None, 0, 100, 500}
BaseBalances == {None, 1}
TakeProfits == {2}
StopLosses == {2}
BalancePcts == {100}
MinVolumes == {1}
LotSizes == {2}
RsiValues == {29, 30, 70, 71}
MacdValues == {0, 1}

Max(a, b) == IF a >= b THEN a ELSE b

Min(a, b) == IF a <= b THEN a ELSE b

Last(s) == s[Len(s)]

(* ------------------------------ Candle --------------------------------- *)
MkCandle(ts, o, h, l, c, v) ==
    [timestamp |-> ts, open |-> o, high |-> h, low |-> l, close |-> c, volume |-> v]

Get(info, key, default) == IF key \in DOMAIN info THEN info[key] ELSE default

(* Candle.from_api for a dict candle_info.  int(None) raises TypeError.    *)
from_api_ts0(candle_info, exchange) ==
    IF exchange = "crypto"
    THEN [raised |-> FALSE,
          candle |-> MkCandle(Get(candle_info, "t", Get(candle_info, "timestamp", 0)),
                              Get(candle_info, "o", Get(candle_info, "open", 0)),
                              Get(candle_info, "h", Get(candle_info, "high", 0)),
                              Get(candle_info, "l", Get(candle_info, "low", 0)),
                              Get(candle_info, "c", Get(candle_info, "close", 0)),
                              Get(candle_info, "v", Get(candle_info, "volume", 0)))]
    ELSE [raised |-> TRUE]

from_api(candle_info, exchange) ==
    IF exchange = "crypto"
    THEN LET ts == Get(candle_info, "t", Get(candle_info, "timestamp", None))
         IN  IF ts = None
             THEN [raised |-> TRUE]
             ELSE [raised |-> FALSE,
                   candle |-> MkCandle(ts,
                              Get(candle_info, "o", Get(candle_info, "open", 0)),
                              Get(candle_info, "h", Get(candle_info, "high", 0)),
                              Get(candle_info, "l", Get(candle_info, "low", 0)),
                              Get(candle_info, "c", Get(candle_info, "close", 0)),
                              Get(candle_info, "v", Get(candle_info, "volume", 0)))]
    ELSE IF exchange = "parse_trade"
    THEN [raised |-> FALSE,
          candle |-> MkCandle(candle_info["ts"],
                              Get(candle_info, "open", 0), Get(candle_info, "high", 0),
                              Get(candle_info, "low", 0), Get(candle_info, "close", 0),
                              Get(candle_info, "volume", 0))]
    ELSE [raised |-> TRUE]

CandleInfo(ts, o, h, l, c, v) ==
    [ts |-> ts, open |-> o, high |-> h, low |-> l, close |-> c, volume |-> v]

UpdateLastVolumeSet(last_candle, price, size) ==
    LET c1 == [last_candle EXCEPT !.close = price, !.volume = size]
    IN  IF price > c1.high THEN [c1 EXCEPT !.high = price]
        ELSE IF price < c1.low THEN [c1 EXCEPT !.low = price]
        ELSE c1

UpdateLastNoHigh(last_candle, price, size) ==
    LET c1 == [last_candle EXCEPT !.close = price, !.volume = @ + size]
    IN  IF price < c1.low THEN [c1 EXCEPT !.low = price]
        ELSE c1

(* The "same candle" branch of parse_trades: lines 61-67.                  *)
UpdateLast(last_candle, price, size) ==
    LET c1 == [last_candle EXCEPT !.close = price, !.volume = @ + size]
    IN  IF price > c1.high THEN [c1 EXCEPT !.high = price]
        ELSE IF price < c1.low THEN [c1 EXCEPT !.low = price]
        ELSE c1

(* The loop of lines 83-89: appends up to n filler candles; an exception   *)
(* raised by Candle.from_api leaves the candles appended so far.           *)
RECURSIVE AppendMissing(_, _)
AppendMissing(cs, n) ==
    IF n = 0 THEN [raised |-> FALSE, candles |-> cs]
    ELSE LET last_candle == Last(cs)
             new_ts == last_candle.timestamp + tf_equiv
             r == from_api(CandleInfo(new_ts, last_candle.close, last_candle.close,
                                      last_candle.close, last_candle.close, 0), "crypto")
         IN  IF r.raised THEN [raised |-> TRUE, candles |-> cs]
             ELSE AppendMissing(Append(cs, r.candle), n - 1)

ParseCandlesSeeding(cs, price, size, timestamp) ==
    IF cs = <<>>
    THEN [ret |-> "new_candle",
          candles |-> <<MkCandle(timestamp - (timestamp % tf_equiv), price, price, price, price,
                                size)>>]
    ELSE LET last_candle == Last(cs) IN
      IF timestamp < last_candle.timestamp + tf_equiv
      THEN [ret |-> "same_candle",
            candles |-> [cs EXCEPT ![Len(cs)] = UpdateLast(last_candle, price, size)]]
      ELSE IF timestamp >= last_candle.timestamp + 2 * tf_equiv
      THEN LET missing_candles == ((timestamp - last_candle.timestamp) \div tf_equiv) - 1
               m == AppendMissing(cs, missing_candles)
           IN  IF m.raised THEN [ret |-> "raised", candles |-> m.candles]
               ELSE LET r == from_api(CandleInfo(Last(m.candles).timestamp + tf_equiv,
                                                 price, price, price, price, size), "crypto")
                    IN  IF r.raised THEN [ret |-> "raised", candles |-> m.candles]
                        ELSE [ret |-> "new_candle", candles |-> Append(m.candles, r.candle)]
      ELSE LET r == from_api(CandleInfo(last_candle.timestamp + tf_equiv,
                                        price, price, price, price, size), "crypto")
           IN  IF r.raised THEN [ret |-> "raised", candles |-> cs]
               ELSE [ret |-> "new_candle", candles |-> Append(cs, r.candle)]

ParseCandlesRolling(cs, price, size, timestamp) ==
    IF cs = <<>> THEN [ret |-> "raised", candles |-> cs]
    ELSE LET last_candle == Last(cs) IN
      IF timestamp < last_candle.timestamp + tf_equiv
      THEN [ret |-> "same_candle",
            candles |-> Tail([cs EXCEPT ![Len(cs)] = UpdateLast(last_candle, price, size)])]
      ELSE IF timestamp >= last_candle.timestamp + 2 * tf_equiv
      THEN LET missing_candles == ((timestamp - last_candle.timestamp) \div tf_equiv) - 1
               m == AppendMissing(cs, missing_candles)
           IN  IF m.raised THEN [ret |-> "raised", candles |-> m.candles]
               ELSE LET r == from_api(CandleInfo(Last(m.candles).timestamp + tf_equiv,
                                                 price, price, price, price, size), "crypto")
                    IN  IF r.raised THEN [ret |-> "raised", candles |-> m.candles]
                        ELSE [ret |-> "new_candle", candles |-> Append(m.candles, r.candle)]
      ELSE LET r == from_api(CandleInfo(last_candle.timestamp + tf_equiv,
                                        price, price, price, price, size), "crypto")
           IN  IF r.raised THEN [ret |-> "raised", candles |-> cs]
               ELSE [ret |-> "new_candle", candles |-> Append(cs, r.candle)]

(* The candle part of parse_trades: the new candle list and the value      *)
(* returned ("raised" when an exception leaves the method).                *)
ParseCandles(cs, price, size, timestamp) ==
    IF cs = <<>> THEN [ret |-> "raised", candles |-> cs]
    ELSE LET last_candle == Last(cs) IN
      IF timestamp < last_candle.timestamp + tf_equiv
      THEN [ret |-> "same_candle",
            candles |-> [cs EXCEPT ![Len(cs)] = UpdateLast(last_candle, price, size)]]
      ELSE IF timestamp >= last_candle.timestamp + 2 * tf_equiv
      THEN LET missing_candles == ((timestamp - last_candle.timestamp) \div tf_equiv) - 1
               m == AppendMissing(cs, missing_candles)
           IN  IF m.raised THEN [ret |-> "raised", candles |-> m.candles]
               ELSE LET r == from_api(CandleInfo(Last(m.candles).timestamp + tf_equiv,
                                                 price, price, price, price, size), "crypto")
                    IN  IF r.raised THEN [ret |-> "raised", candles |-> m.candles]
                        ELSE [ret |-> "new_candle", candles |-> Append(m.candles, r.candle)]
      ELSE LET r == from_api(CandleInfo(last_candle.timestamp + tf_equiv,
                                        price, price, price, price, size), "crypto")
           IN  IF r.raised THEN [ret |-> "raised", candles |-> cs]
               ELSE [ret |-> "new_candle", candles |-> Append(cs, r.candle)]

(* --------------------------- exchange client --------------------------- *)
(* BinanceExchangeClient stores its URL in _base_url and has place_order   *)
(* and get_order_status; CryptoExchangeClient has base_url (crypto.com)    *)
(* and neither of the two methods.                                         *)
HasBaseUrl(c) == c = "crypto"

BaseUrlContainsBinanceUs(c) == FALSE

HasPlaceOrder(c) == c = "binance"

(* is_spot of lines 138 and 266.                                           *)
is_spot == HasBaseUrl(client) /\ BaseUrlContainsBinanceUs(client)

(* Replies of client.place_order / client.get_order_status; NoReply is the *)
(* Python None.                                                            *)
NoReply == [status |-> "None", avg_price |-> 0, executed_qty |-> 0]

(* An order that is not filled yet reports no price and no quantity.       *)
OrderReplies ==
    {NoReply, [status |-> "new", avg_price |-> 0, executed_qty |-> 0]}
        \cup [status : {"filled"}, avg_price : AvgPrices, executed_qty : ExecQtys]

(* get_order_status can also report an order that will never fill.        *)
PollReplies ==
    OrderReplies \cup [status : {"canceled", "rejected"}, avg_price : {0},
                       executed_qty : {0}]

(* ----------------------------- signals --------------------------------- *)
TechnicalSignalInclusive(rsi, macd_line, macd_signal) ==
    IF rsi <= 30 /\ macd_line > macd_signal THEN 1
    ELSE IF rsi >= 70 /\ macd_line < macd_signal THEN -1
    ELSE 0

(* TechnicalStrategy._check_signal on the indicator values; the indicator  *)
(* values themselves (_rsi, _macd) are inputs of the model.                *)
TechnicalSignal(rsi, macd_line, macd_signal) ==
    IF rsi < 30 /\ macd_line > macd_signal THEN 1
    ELSE IF rsi > 70 /\ macd_line < macd_signal THEN -1
    ELSE 0

BreakoutSignalInclusive(cs) ==
    LET n == Len(cs) IN
    IF cs[n].close > cs[n - 1].high /\ cs[n].volume >= min_volume THEN 1
    ELSE IF cs[n].close < cs[n - 1].low /\ cs[n].volume >= min_volume THEN -1
    ELSE 0

(* BreakoutStrategy._check_signal; candles[-2] needs two candles.          *)
BreakoutSignal(cs) ==
    LET n == Len(cs) IN
    IF cs[n].close > cs[n - 1].high /\ cs[n].volume > min_volume THEN 1
    ELSE IF cs[n].close < cs[n - 1].low /\ cs[n].volume > min_volume THEN -1
    ELSE 0

(* The condition under which check_trade calls _check_signal.              *)
CheckTradeGuardNoFlag(name, tt, ongoing) ==
    IF name = "Technical" THEN tt = "new_candle" ELSE TRUE

CheckTradeGuard(name, tt, ongoing) ==
    IF name = "Technical" THEN tt = "new_candle" /\ ~ongoing
    ELSE ~ongoing

(* ------------------------------ sizing --------------------------------- *)
(* Python round() of the non-negative rational num/den: ties go to even.   *)
RoundHalfEven(num, den) ==
    LET q == num \div den
        r == num % den
    IN  IF 2 * r < den THEN q
        ELSE IF 2 * r > den THEN q + 1
        ELSE IF q % 2 = 0 THEN q ELSE q + 1

get_trade_size_truncating(cs, free) ==
    IF cs = <<>> THEN None
    ELSE IF free = None THEN None
    ELSE IF Last(cs).close = 0 \/ lot_size = 0 THEN None
    ELSE ((free * balance_pct) \div (100 * Last(cs).close * lot_size)) * lot_size

(* _get_trade_size: free is the free balance of the settlement asset       *)
(* (None when the asset is not in client.balances); any exception gives    *)
(* None.                                                                   *)
get_trade_size(cs, free) ==
    IF cs = <<>> THEN None
    ELSE IF free = None THEN None
    ELSE IF Last(cs).close = 0 \/ lot_size = 0 THEN None
    ELSE RoundHalfEven(free * balance_pct, 100 * Last(cs).close * lot_size) * lot_size

(* BinanceExchangeClient.place_order(contract, side, quantity, order_type): *)
(* the parameters of the request sent to POST /api/v3/order.               *)
place_order(side, quantity, order_type) ==
    [side |-> side, type |-> order_type,
     quantity |-> RoundHalfEven(quantity, lot_size) * lot_size]

(* ------------------------------- exits --------------------------------- *)
TpSlTriggeredStrict(trade, price) ==
    IF trade.side = "long"
    THEN \/ (stop_loss # None /\ 100 * price <= trade.entry_price * (100 - stop_loss))
         \/ (take_profit # None /\ 100 * price >= trade.entry_price * (100 + take_profit))
    ELSE IF trade.side = "short"
    THEN \/ (stop_loss # None /\ 100 * price >= trade.entry_price * (100 + stop_loss))
         \/ (take_profit # None /\ 100 * price < trade.entry_price * (100 - take_profit))
    ELSE FALSE

(* The trigger computed by _check_tp_sl, lines 238-259.                    *)
TpSlTriggered(trade, price) ==
    IF trade.side = "long"
    THEN \/ (stop_loss # None /\ 100 * price <= trade.entry_price * (100 - stop_loss))
         \/ (take_profit # None /\ 100 * price >= trade.entry_price * (100 + take_profit))
    ELSE IF trade.side = "short"
    THEN \/ (stop_loss # None /\ 100 * price >= trade.entry_price * (100 + stop_loss))
         \/ (take_profit # None /\ 100 * price <= trade.entry_price * (100 - take_profit))
    ELSE FALSE

ExitSide(trade) == IF trade.side = "long" THEN "SELL" ELSE "BUY"

check_tp_sl_CloseUnconfirmed(trade, price, avail, reply) ==
    IF ~TpSlTriggered(trade, price)
    THEN [trade |-> trade, orders |-> {}, closed |-> FALSE, raised |-> FALSE]
    ELSE LET o == [entry_id |-> trade.entry_id, a1 |-> "MARKET",
                   a2 |-> trade.quantity, a3 |-> ExitSide(trade),
                   confirmed |-> reply # NoReply,
                   avail |-> avail, held |-> trade.quantity]
         IN  [trade |-> [trade EXCEPT !.status = "closed"], orders |-> {o},
              closed |-> TRUE, raised |-> FALSE]

(* _check_tp_sl on one trade: avail is the free balance of the base asset  *)
(* in client.balances (None when absent), reply the answer of place_order. *)
(* The order records the arguments of the call, the balance at that moment *)
(* and the quantity the trade held before line 273.                        *)
check_tp_sl(trade, price, avail, reply) ==
    IF ~TpSlTriggered(trade, price)
    THEN [trade |-> trade, orders |-> {}, closed |-> FALSE, raised |-> FALSE]
    ELSE LET order_side == ExitSide(trade)
             t1 == IF is_spot /\ order_side = "SELL" /\ avail # None
                   THEN [trade EXCEPT !.quantity = Min(avail, trade.quantity)]
                   ELSE trade
         IN  IF ~HasPlaceOrder(client)
             THEN [trade |-> t1, orders |-> {}, closed |-> FALSE, raised |-> TRUE]
             ELSE LET o == [entry_id |-> trade.entry_id, a1 |-> "MARKET",
                            a2 |-> t1.quantity, a3 |-> order_side,
                            confirmed |-> reply # NoReply,
                            avail |-> avail, held |-> trade.quantity]
                  IN  IF reply # NoReply
                      THEN [trade |-> [t1 EXCEPT !.status = "closed"], orders |-> {o},
                            closed |-> TRUE, raised |-> FALSE]
                      ELSE [trade |-> t1, orders |-> {o}, closed |-> FALSE, raised |-> FALSE]

EligibleUnpriced(trade) == trade.status = "open"

(* The condition of line 71 for a trade to be checked for an exit.         *)
Eligible(trade) == trade.status = "open" /\ trade.entry_price # None

(* The loop of lines 70-72 from index i on.  st carries the trades, the    *)
(* flag, the trades checked and the orders submitted so far.               *)
RECURSIVE TpSlLoop(_, _, _, _, _)
TpSlLoop(st, i, price, avail, replies) ==
    IF i > Len(st.trades) \/ st.raised THEN st
    ELSE IF ~Eligible(st.trades[i]) THEN TpSlLoop(st, i + 1, price, avail, replies)
    ELSE LET r == check_tp_sl(st.trades[i], price, avail, replies[i])
         IN  TpSlLoop([trades |-> [st.trades EXCEPT ![i] = r.trade],
                       ongoing |-> IF r.closed THEN FALSE ELSE st.ongoing,
                       checked |-> st.checked \cup {i},
                       orders |-> st.orders \cup r.orders,
                       raised |-> r.raised],
                      i + 1, price, avail, replies)

(* ------------------------------ state ---------------------------------- *)
Seed1 == <<MkCandle(0, 100, 100, 100, 100, 0)>>

Seed2 == <<MkCandle(-60000, 100, 100, 100, 100, 1), MkCandle(0, 100, 100, 100, 100, 0)>>

Seeds == {<<>>, Seed1, Seed2}

OrderIds == 1 .. MaxTrades

(* entry_order records the last run of _open_position: the signal, the     *)
(* balance read and the size computed (sized), the arguments of the call   *)
(* of place_order (called) and the status of its answer.                   *)
NoOrder == [a1 |-> "none", a2 |-> 0, a3 |-> "none", confirmed |-> FALSE,
            signal |-> 0, sized |-> FALSE, free |-> None, size |-> None,
            called |-> FALSE, reply |-> "None"]

NoStatus == [status |-> "None", avg_price |-> 0, executed_qty |-> 0, order_id |-> 0]

Init ==
    /\ strat_name \in {"Technical", "Breakout"}
    /\ client \in {"binance", "crypto"}
    /\ balance_pct \in BalancePcts
    /\ take_profit \in TakeProfits
    /\ stop_loss \in StopLosses
    /\ min_volume \in MinVolumes
    /\ lot_size \in LotSizes
    /\ candles \in Seeds
    /\ trades = <<>>
    /\ ongoing_position = FALSE
    /\ pc = "idle"
    /\ tick_type = "none"
    /\ feed_ts = 0
    /\ order_status = NoStatus
    /\ position_side = "none"
    /\ next_order_id = 1
    /\ poll = [o \in OrderIds |-> "off"]
    /\ poll_status = [o \in OrderIds |-> NoReply]
    /\ eligible = {}
    /\ exit_checked = {}
    /\ exit_orders = {}
    /\ signal_evaluated = FALSE
    /\ entry_order = NoOrder
    /\ entry_failed = FALSE
    /\ poll_count = [o \in OrderIds |-> 0]
    /\ active = TRUE
    /\ in_rsi = 0 /\ in_macd_line = 0 /\ in_macd_signal = 0
    /\ returned = <<>>
    /\ rpc_method = "none" /\ rpc_attempt = 0 /\ rpc_log = <<>>
    /\ rpc_outcome = "idle"

(* parse_trades(price, size, timestamp), called by the feed handler for    *)
(* one tick; the feed delivers non-decreasing timestamps.                  *)
ParseTrades(price, size, timestamp) ==
    /\ active
    /\ pc = "idle"
    /\ timestamp >= feed_ts
    /\ candles # <<>> => Last(candles).volume + size <= MaxVolume
    /\ \E avail \in BaseBalances,
          replies \in [{i \in 1 .. Len(trades) : Eligible(trades[i])}
                         -> {NoReply, [NoReply EXCEPT !.status = "new"]}] :
         LET pr == ParseCandles(candles, price, size, timestamp)
             st0 == [trades |-> trades, ongoing |-> ongoing_position, checked |-> {},
                     orders |-> {}, raised |-> FALSE]
             st == IF pr.ret = "same_candle"
                   THEN TpSlLoop(st0, 1, Last(pr.candles).close, avail, replies)
                   ELSE st0
             ret == IF st.raised THEN "raised" ELSE pr.ret
         IN  /\ candles' = pr.candles
             /\ trades' = st.trades
             /\ ongoing_position' = st.ongoing
             /\ tick_type' = ret
             /\ pc' = IF ret = "raised" THEN "idle" ELSE "check_trade"
             /\ exit_checked' = st.checked
             /\ exit_orders' = st.orders
    /\ feed_ts' = timestamp
    /\ eligible' = {i \in 1 .. Len(trades) : Eligible(trades[i])}
    /\ signal_evaluated' = FALSE
    /\ entry_order' = NoOrder
    /\ entry_failed' = (entry_failed /\ tick_type' # "new_candle")
    /\ UNCHANGED <<calls, rpc, params, order_status, position_side, next_order_id, poll, poll_status,
                   poll_count, active>>

(* _open_position(signal_result) up to the start of the poll timer (lines  *)
(* 137-173); the Trade is appended by AppendTrade.  free is the free       *)
(* balance of the settlement asset, reply the answer of place_order.       *)
open_position(signal_result, free, reply) ==
    LET trade_size == get_trade_size(candles, free)
        order_side == IF signal_result = 1 THEN "buy" ELSE "sell"
        returns == /\ pc' = "idle"
                   /\ UNCHANGED <<ongoing_position, order_status, position_side,
                                  next_order_id, poll>>
        sizing == [NoOrder EXCEPT !.signal = signal_result, !.sized = TRUE,
                                  !.free = free, !.size = trade_size]
    IN  IF is_spot /\ signal_result = -1
        THEN returns /\ entry_order' = [NoOrder EXCEPT !.signal = signal_result]
        ELSE IF trade_size = None \/ trade_size = 0
        THEN returns /\ entry_order' = sizing
        ELSE IF ~HasPlaceOrder(client)
        THEN returns /\ entry_order' = sizing
        ELSE /\ entry_order' = [sizing EXCEPT !.a1 = "MARKET", !.a2 = trade_size,
                                              !.a3 = order_side, !.called = TRUE,
                                              !.confirmed = (reply # NoReply),
                                              !.reply = IF reply = NoReply THEN "None"
                                                        ELSE reply.status]
             /\ IF reply = NoReply
                THEN returns
                ELSE /\ Len(trades) < MaxTrades
                     /\ ongoing_position' = TRUE
                     /\ order_status' = [status |-> reply.status, avg_price |-> reply.avg_price,
                                         executed_qty |-> reply.executed_qty,
                                         order_id |-> next_order_id]
                     /\ next_order_id' = next_order_id + 1
                     /\ position_side' = IF signal_result = 1 THEN "long" ELSE "short"
                     /\ poll' = IF reply.status = "filled" THEN poll
                                ELSE [poll EXCEPT ![next_order_id] = "armed"]
                     /\ pc' = "append_trade"

(* The signal computed by _check_signal of the strategy variant.           *)
check_signal(rsi, macd_line, macd_signal) ==
    IF strat_name = "Technical" THEN TechnicalSignal(rsi, macd_line, macd_signal)
    ELSE BreakoutSignal(candles)

(* check_trade(tick_type) of the strategy variant, called with the value   *)
(* parse_trades returned.                                                  *)
CheckTrade ==
    /\ pc = "check_trade"
    /\ IF ~CheckTradeGuard(strat_name, tick_type, ongoing_position)
       THEN /\ pc' = "idle"
            /\ UNCHANGED <<ongoing_position, order_status, position_side, next_order_id,
                           poll, signal_evaluated, entry_order>>
       ELSE /\ signal_evaluated' = TRUE
            /\ IF strat_name = "Breakout" /\ Len(candles) < 2
               THEN /\ pc' = "idle"
                    /\ UNCHANGED <<ongoing_position, order_status, position_side,
                                   next_order_id, poll, entry_order>>
               ELSE \E rsi \in IF strat_name = "Technical" THEN RsiValues ELSE {0},
                       macd_line \in IF strat_name = "Technical" THEN MacdValues ELSE {0},
                       macd_signal \in IF strat_name = "Technical" THEN MacdValues ELSE {0} :
                      LET signal_result == check_signal(rsi, macd_line, macd_signal)
                      IN  IF signal_result \in {1, -1}
                          THEN \E free \in FreeBalances, reply \in OrderReplies :
                                  open_position(signal_result, free, reply)
                          ELSE /\ pc' = "idle"
                               /\ UNCHANGED <<ongoing_position, order_status, position_side,
                                              next_order_id, poll, entry_order>>
    /\ entry_failed' = IF entry_order'.called THEN ~entry_order'.confirmed
                       ELSE entry_failed
    /\ UNCHANGED <<calls, rpc, params, candles, trades, tick_type, feed_ts, poll_status,
                   poll_count, active, eligible, exit_checked, exit_orders>>

AppendTradeUnpriced ==
    /\ pc = "append_trade"
    /\ trades' = Append(trades,
                    [side |-> position_side,
                     entry_price |-> None,
                     status |-> "open",
                     quantity |-> order_status.executed_qty,
                     entry_id |-> order_status.order_id])
    /\ order_status' = NoStatus
    /\ position_side' = "none"
    /\ pc' = "idle"
    /\ UNCHANGED <<calls, rpc, params, candles, ongoing_position, tick_type, feed_ts,
                   next_order_id, poll, poll_status, poll_count, active, history>>

(* Lines 176-187 of _open_position: the Trade is created and appended.     *)
AppendTrade ==
    /\ pc = "append_trade"
    /\ trades' = Append(trades,
                    [side |-> position_side,
                     entry_price |-> IF order_status.status = "filled"
                                     THEN order_status.avg_price ELSE None,
                     status |-> "open",
                     quantity |-> order_status.executed_qty,
                     entry_id |-> order_status.order_id])
    /\ order_status' = NoStatus
    /\ position_side' = "none"
    /\ pc' = "idle"
    /\ UNCHANGED <<calls, rpc, params, candles, ongoing_position, tick_type, feed_ts,
                   next_order_id, poll, poll_status, poll_count, active, history>>

(* ---------------------- order status poller ---------------------------- *)
TradeOf(order_id) ==
    IF \E i \in 1 .. Len(trades) : trades[i].entry_id = order_id
    THEN CHOOSE i \in 1 .. Len(trades) :
            /\ trades[i].entry_id = order_id
            /\ \A j \in 1 .. (i - 1) : trades[j].entry_id # order_id
    ELSE 0

(* _check_order_status(order_id) run by a Timer thread: the call of        *)
(* get_order_status and the search of the trade (lines 115-122).           *)
PollGet(o) ==
    /\ poll[o] = "armed"
    /\ \E reply \in PollReplies :
         IF reply # NoReply /\ reply.status = "filled"
         THEN /\ IF TradeOf(o) # 0
                 THEN /\ poll' = [poll EXCEPT ![o] = "set_price"]
                      /\ poll_status' = [poll_status EXCEPT ![o] = reply]
                 ELSE /\ poll' = [poll EXCEPT ![o] = "off"]
                      /\ UNCHANGED poll_status
              /\ poll_count' = [poll_count EXCEPT ![o] = 0]
         ELSE /\ poll_count[o] < MaxPolls
              /\ poll_count' = [poll_count EXCEPT ![o] = @ + 1]
              /\ UNCHANGED <<poll, poll_status>>
    /\ UNCHANGED <<calls, rpc, params, candles, trades, ongoing_position, pc, tick_type, feed_ts,
                   order_status, position_side, next_order_id, active, history>>

(* Line 123: trade.entry_price = order_status.avg_price.                   *)
PollSetPrice(o) ==
    /\ poll[o] = "set_price"
    /\ trades' = [trades EXCEPT ![TradeOf(o)].entry_price = poll_status[o].avg_price]
    /\ poll' = [poll EXCEPT ![o] = "set_qty"]
    /\ UNCHANGED <<calls, rpc, params, candles, ongoing_position, pc, tick_type, feed_ts,
                   order_status, position_side, next_order_id, poll_status, poll_count,
                   active, history>>

(* Line 124: trade.quantity = float(order_status.executed_qty).            *)
PollSetQty(o) ==
    /\ poll[o] = "set_qty"
    /\ trades' = [trades EXCEPT ![TradeOf(o)].quantity = poll_status[o].executed_qty]
    /\ poll' = [poll EXCEPT ![o] = "off"]
    /\ poll_status' = [poll_status EXCEPT ![o] = NoReply]
    /\ UNCHANGED <<calls, rpc, params, candles, ongoing_position, pc, tick_type, feed_ts,
                   order_status, position_side, next_order_id, poll_count, active,
                   history>>

(* The deactivation branch of _switch_strategy: the row is switched OFF    *)
(* and its widgets are enabled; nothing of the Strategy or of its Timer    *)
(* threads is touched.  A deactivated strategy is given no more ticks.     *)
Deactivate ==
    /\ active
    /\ pc = "idle"
    /\ active' = FALSE
    /\ UNCHANGED <<calls, rpc, params, candles, trades, ongoing_position, pc, tick_type, feed_ts,
                   order_status, position_side, next_order_id, poll, poll_status,
                   poll_count, history>>

Next ==
    \/ \E price \in Prices, size \in Sizes, timestamp \in TickTimes :
          ParseTrades(price, size, timestamp)
    \/ CheckTrade
    \/ AppendTrade
    \/ \E o \in OrderIds : PollGet(o)
    \/ \E o \in OrderIds : PollSetPrice(o)
    \/ \E o \in OrderIds : PollSetQty(o)
    \/ Deactivate

Spec == Init /\ [][Next]_vars

(* ------------------- _check_signal applied on its own ------------------ *)
(* Indicator values around the levels 30 and 70 and around equality of the *)
(* two MACD values.                                                        *)
SignalRsis == {29, 30, 31, 69, 70, 71}

SignalMacds == {0, 1, 2}

(* Two candles around a previous high of 20 and low of 16, in price units  *)
(* of 0.5, with volumes around a min_volume of 5.                          *)
SignalCandles ==
    {<<MkCandle(-60000, 18, 20, 16, 18, 1), MkCandle(0, 18, Max(18, c), Min(18, c), c, v)>> :
        c \in {15, 16, 17, 19, 20, 21}, v \in {4, 5, 6}}

(* The strategy as constructed, before any tick.                           *)
StrategyAtRest ==
    /\ trades = <<>>
    /\ ongoing_position = FALSE
    /\ pc = "idle"
    /\ tick_type = "none"
    /\ feed_ts = 0
    /\ order_status = NoStatus
    /\ position_side = "none"
    /\ next_order_id = 1
    /\ poll = [o \in OrderIds |-> "off"]
    /\ poll_status = [o \in OrderIds |-> NoReply]
    /\ poll_count = [o \in OrderIds |-> 0]
    /\ active = TRUE
    /\ eligible = {}
    /\ exit_checked = {}
    /\ exit_orders = {}
    /\ signal_evaluated = FALSE
    /\ entry_order = NoOrder
    /\ entry_failed = FALSE
    /\ balance_pct \in BalancePcts
    /\ take_profit \in TakeProfits
    /\ stop_loss \in StopLosses
    /\ lot_size \in LotSizes

SignalInit ==
    /\ StrategyAtRest
    /\ client = "binance"
    /\ returned = <<>>
    /\ rpc_method = "none" /\ rpc_attempt = 0 /\ rpc_log = <<>>
    /\ rpc_outcome = "idle"
    /\ \/ /\ strat_name = "Technical"
          /\ candles = Seed2
          /\ min_volume \in MinVolumes
          /\ in_rsi \in SignalRsis
          /\ in_macd_line \in SignalMacds
          /\ in_macd_signal \in SignalMacds
       \/ /\ strat_name = "Breakout"
          /\ candles \in SignalCandles
          /\ min_volume = 5
          /\ in_rsi = 0 /\ in_macd_line = 0 /\ in_macd_signal = 0

(* One call of _check_signal of the strategy variant.                      *)
CheckSignal ==
    /\ returned = <<>>
    /\ returned' = <<check_signal(in_rsi, in_macd_line, in_macd_signal)>>
    /\ UNCHANGED <<in_rsi, in_macd_line, in_macd_signal, rpc, params, candles, trades,
                   ongoing_position, pc, tick_type, feed_ts, order_status, position_side,
                   next_order_id, poll, poll_status, poll_count, active, history>>

SignalNext == CheckSignal

SignalSpec == SignalInit /\ [][SignalNext]_vars

(* --------------------- CryptoExchangeClient._rpc ----------------------- *)
MAX_RETRIES == 3

RpcMethods == {"public/get-instruments", "private/create-order"}

(* What one requests.post gives: an exception (exc), or a response with    *)
(* its HTTP status, whether its body parses as JSON (json) and the "code"  *)
(* of the parsed body (0 when the body has none).                          *)
RpcAnswers ==
    [exc : {"ConnectionError", "Timeout", "Exception"}, status : {0}, json : {FALSE},
     code : {0}]
    \cup [exc : {"none"}, status : {200, 401, 500}, json : {FALSE}, code : {0}]
    \cup [exc : {"none"}, status : {200, 401, 500}, json : {TRUE}, code : {0, 40101, 10004}]

(* The body of the try block for one answer: "continue", "return" or the   *)
(* exception raised inside the block.                                      *)
rpc_try(attempt, answer) ==
    IF answer.exc # "none" THEN answer.exc
    ELSE IF ~answer.json
    THEN IF answer.status = 401 /\ attempt < MAX_RETRIES - 1 THEN "continue"
         ELSE IF answer.status >= 400 THEN "HTTPError"
         ELSE "JSONDecodeError"
    ELSE IF answer.code # 0
    THEN IF answer.code = 40101 /\ attempt < MAX_RETRIES - 1 THEN "continue"
         ELSE "ValueError"
    ELSE "return"

(* The except clauses: what one iteration of the loop ends with.           *)
rpc_iteration(attempt, answer) ==
    LET r == rpc_try(attempt, answer) IN
    IF r \in {"continue", "return"} THEN r
    ELSE IF r \in {"ConnectionError", "Timeout"}
    THEN IF attempt < MAX_RETRIES - 1 THEN "continue" ELSE r
    ELSE IF r = "HTTPError"
    THEN IF answer.status = 401 /\ attempt < MAX_RETRIES - 1 THEN "continue" ELSE r
    ELSE IF attempt < MAX_RETRIES - 1 THEN "continue" ELSE r

RpcInit ==
    /\ StrategyAtRest
    /\ client = "crypto"
    /\ strat_name = "Technical"
    /\ candles = Seed2
    /\ min_volume \in MinVolumes
    /\ in_rsi = 0 /\ in_macd_line = 0 /\ in_macd_signal = 0
    /\ returned = <<>>
    /\ rpc_method \in RpcMethods
    /\ rpc_attempt = 0
    /\ rpc_log = <<>>
    /\ rpc_outcome = "running"

(* One iteration of the for loop of _rpc; when the loop runs out the       *)
(* RuntimeError after it is raised.                                        *)
RpcAttempt ==
    /\ rpc_outcome = "running"
    /\ rpc_attempt < MAX_RETRIES
    /\ \E answer \in RpcAnswers :
         LET r == rpc_iteration(rpc_attempt, answer) IN
         /\ rpc_log' = Append(rpc_log, answer)
         /\ IF r = "continue"
            THEN /\ rpc_attempt' = rpc_attempt + 1
                 /\ rpc_outcome' = IF rpc_attempt + 1 < MAX_RETRIES THEN "running"
                                   ELSE "RuntimeError"
            ELSE /\ rpc_attempt' = rpc_attempt
                 /\ rpc_outcome' = r
    /\ UNCHANGED <<rpc_method, calls, params, candles, trades,
                   ongoing_position, pc, tick_type, feed_ts, order_status, position_side,
                   next_order_id, poll, poll_status, poll_count, active, history>>

RpcNext == RpcAttempt

RpcSpec == RpcInit /\ [][RpcNext]_vars

(* ============================= properties ============================== *)
OpenTrades == {i \in 1 .. Len(trades) : trades[i].status # "closed"}

TradeWithId(id) == CHOOSE i \in 1 .. Len(trades) : trades[i].entry_id = id

(* C1: at every moment at most one Trade of the strategy is not closed,    *)
(* counting the Trade that _open_position is about to append.              *)
C1_AtMostOneOpenTrade ==
    Cardinality(OpenTrades) + (IF pc = "append_trade" THEN 1 ELSE 0) <= 1

(* A second position was opened after the first one was closed.            *)
C1_Witness ==
    /\ Len(trades) = 2
    /\ trades[1].status = "closed"
    /\ trades[2].status = "open"
    /\ ongoing_position

(* C2: no two candles of self.candles have the same timestamp.             *)
C2_DistinctBuckets ==
    \A i, j \in 1 .. Len(candles) :
        i # j => candles[i].timestamp # candles[j].timestamp

(* Ticks were merged into the last candle and a tick three buckets later   *)
(* has been handed to parse_trades.                                        *)
C2_Witness ==
    /\ Len(candles) = 2
    /\ Last(candles).volume > 0
    /\ feed_ts = 185000
    /\ tick_type = "raised"

(* The candles the gap branch has to produce: n fillers, then the tick's   *)
(* candle.                                                                 *)
GapFilled(cs, price, size, timestamp) ==
    LET last == Last(cs)
        n == ((timestamp - last.timestamp) \div tf_equiv) - 1
    IN  cs \o [k \in 1 .. n |-> MkCandle(last.timestamp + k * tf_equiv, last.close,
                                         last.close, last.close, last.close, 0)]
           \o <<MkCandle(last.timestamp + (n + 1) * tf_equiv, price, price, price, price, size)>>

(* C3: a tick at or after last.timestamp + 2*width appends n fillers and   *)
(* the tick's candle and returns new_candle.                               *)
C3_GapFill ==
    [][\A price \in Prices, size \in Sizes, timestamp \in TickTimes :
          (/\ ParseTrades(price, size, timestamp)
           /\ candles # <<>>
           /\ timestamp >= Last(candles).timestamp + 2 * tf_equiv)
          => /\ tick_type' = "new_candle"
             /\ candles' = GapFilled(candles, price, size, timestamp)]_vars

Merged(cs, price, size) ==
    [cs EXCEPT ![Len(cs)] = [@ EXCEPT !.close = price,
                                      !.volume = @ + size,
                                      !.high = Max(@, price),
                                      !.low = Min(@, price)]]

(* C4: a tick at last.timestamp + width - 1 is merged (same_candle), a     *)
(* tick in [last.timestamp + width, last.timestamp + 2*width) appends      *)
(* exactly one candle open=high=low=close=price, volume=size (new_candle). *)
C4_RightOpenBuckets ==
    [][\A price \in Prices, size \in Sizes, timestamp \in TickTimes :
          (ParseTrades(price, size, timestamp) /\ candles # <<>>)
          => /\ timestamp = Last(candles).timestamp + tf_equiv - 1
                => tick_type' = "same_candle" /\ candles' = Merged(candles, price, size)
             /\ (/\ timestamp >= Last(candles).timestamp + tf_equiv
                 /\ timestamp < Last(candles).timestamp + 2 * tf_equiv)
                => /\ tick_type' = "new_candle"
                   /\ candles' = Append(candles,
                                     MkCandle(Last(candles).timestamp + tf_equiv,
                                              price, price, price, price, size))]_vars

(* C5: a tick before last.timestamp + width changes only the last candle:  *)
(* close = price, volume += size, high = max, low = min; open, timestamp,  *)
(* the number of candles and the earlier candles stay.                     *)
C5_SameCandleUpdate ==
    [][\A price \in Prices, size \in Sizes, timestamp \in TickTimes :
          (/\ ParseTrades(price, size, timestamp)
           /\ candles # <<>>
           /\ timestamp < Last(candles).timestamp + tf_equiv)
          => /\ tick_type' = "same_candle"
             /\ Len(candles') = Len(candles)
             /\ \A i \in 1 .. (Len(candles) - 1) : candles'[i] = candles[i]
             /\ Last(candles').open = Last(candles).open
             /\ Last(candles').timestamp = Last(candles).timestamp
             /\ Last(candles').close = price
             /\ Last(candles').volume = Last(candles).volume + size
             /\ Last(candles').high = Max(Last(candles).high, price)
             /\ Last(candles').low = Min(Last(candles).low, price)]_vars

(* Size-0 ticks moved close, high and low of the last candle and left its  *)
(* volume at the seeded 0.                                                 *)
C5_Witness ==
    /\ tick_type = "same_candle"
    /\ Len(candles) = 2
    /\ Last(candles).volume = 0
    /\ Last(candles).close = 98
    /\ Last(candles).high = 102
    /\ Last(candles).low = 98

(* C6: every candle has high >= max(open, close), low <= min(open, close)  *)
(* and volume >= 0.                                                        *)
C6_CandleWellFormed ==
    \A i \in 1 .. Len(candles) :
        /\ candles[i].high >= Max(candles[i].open, candles[i].close)
        /\ candles[i].low <= Min(candles[i].open, candles[i].close)
        /\ candles[i].volume >= 0

(* The last candle was pushed above and below its open by ticks with size. *)
C6_Witness ==
    /\ candles # <<>>
    /\ Last(candles).high > Last(candles).open
    /\ Last(candles).low < Last(candles).open
    /\ Last(candles).close = Last(candles).high
    /\ Last(candles).volume = MaxVolume

(* C7: check_trade evaluates the signal only on a new_candle event.        *)
C7_SignalOnlyOnNewCandle ==
    signal_evaluated => tick_type = "new_candle"

(* C8: every tick handed to parse_trades runs the exit check on every      *)
(* trade that is open with a confirmed fill.                               *)
C8_ExitCheckEveryTick ==
    tick_type # "none" => eligible \subseteq exit_checked

(* The exit condition of a trade at close p as the claim states it.        *)
ExitDue(side, e, p) ==
    IF side = "long"
    THEN 100 * p <= e * (100 - stop_loss) \/ 100 * p >= e * (100 + take_profit)
    ELSE 100 * p >= e * (100 + stop_loss) \/ 100 * p <= e * (100 - take_profit)

C10_ClosedIffExitConfirmed ==
    [][\A i \in 1 .. Len(trades) :
          LET confirmed == \E o \in exit_orders' :
                              o.entry_id = trades[i].entry_id /\ o.confirmed
          IN  /\ (trades[i].status # "closed" /\ trades'[i].status = "closed") => confirmed
              /\ (pc = "idle" /\ pc' = "check_trade" /\ confirmed)
                 => /\ trades'[i].status = "closed"
                    /\ ~ongoing_position'
                    /\ CheckTradeGuard(strat_name, "new_candle", ongoing_position')]_vars

(* The exit order of a long trade has just been confirmed.                 *)
C10_Witness ==
    /\ pc = "check_trade"
    /\ ~ongoing_position
    /\ \E o \in exit_orders :
          /\ o.confirmed
          /\ o.a3 = "SELL"
          /\ trades[TradeWithId(o.entry_id)].status = "closed"

(* A client of class BinanceExchangeClient trades on the Binance.US spot   *)
(* market.                                                                 *)
SpotMarket == client = "binance"

(* C11: on a spot market a Short signal is rejected before place_order:    *)
(* no sell entry order is submitted and no short Trade is created.         *)
C11_ShortRejectedOnSpot ==
    SpotMarket => /\ entry_order.a3 # "sell"
                  /\ position_side # "short"
                  /\ \A i \in 1 .. Len(trades) : trades[i].side # "short"

(* C12: on a spot market the quantity of a submitted exit SELL order is    *)
(* min(trade.quantity, free base-asset balance).                           *)
C12_ExitSellClamped ==
    \A o \in exit_orders :
        (SpotMarket /\ o.a3 = "SELL" /\ o.avail # None)
        => o.a2 = Min(o.held, o.avail) /\ o.a2 <= o.avail

Abs(x) == IF x < 0 THEN -x ELSE x

(* C13: the size computed by _get_trade_size is a multiple of lot_size and *)
(* no other multiple is nearer to (free * balance_pct / 100) / last close; *)
(* with the balance absent or zero, or a size of zero, place_order is not  *)
(* called and no Trade is being created.                                   *)
C13_TradeSizeQuantised ==
    entry_order.sized
    => /\ entry_order.size # None
          => /\ entry_order.size % lot_size = 0
             /\ 2 * Abs(100 * Last(candles).close * entry_order.size
                        - entry_order.free * balance_pct)
                <= 100 * Last(candles).close * lot_size
       /\ (entry_order.free \in {None, 0} \/ entry_order.size = 0)
          => /\ ~entry_order.called
             /\ pc = "idle"
             /\ order_status = NoStatus

C13_Witness ==
    /\ entry_order.sized /\ entry_order.called
    /\ entry_order.free = 500 /\ Last(candles).close = 98 /\ entry_order.size = 6

C15_EntryOrderRequest ==
    entry_order.called
    => LET req == place_order(entry_order.a1, entry_order.a2, entry_order.a3)
       IN  /\ req.type = "MARKET"
           /\ req.side = (IF entry_order.signal = 1 THEN "buy" ELSE "sell")
           /\ req.quantity = entry_order.size

(* C16: when place_order answered with status "filled", _open_position     *)
(* appends exactly one Trade, of status "open", with entry_price the       *)
(* avg_price and quantity the executed_qty of the answer, and no poll      *)
(* timer runs for that order.                                              *)
C16_FilledEntryTrade ==
    [][(pc = "append_trade" /\ pc' = "idle" /\ order_status.status = "filled")
       => /\ Len(trades') = Len(trades) + 1
          /\ SubSeq(trades', 1, Len(trades)) = trades
          /\ Last(trades').status = "open"
          /\ Last(trades').entry_price = order_status.avg_price
          /\ Last(trades').quantity = order_status.executed_qty
          /\ Last(trades').entry_id = order_status.order_id
          /\ poll[order_status.order_id] = "off"
          /\ poll'[order_status.order_id] = "off"]_vars

C16_Witness ==
    /\ entry_order.reply = "filled" /\ pc = "idle"
    /\ Len(trades) = 1
    /\ trades[1].status = "open" /\ trades[1].entry_price = 100
    /\ trades[1].quantity = 2
    /\ poll[trades[1].entry_id] = "off"

C18_PollingBounded ==
    \A o \in OrderIds : poll_count[o] = MaxPolls => poll[o] # "armed"

(* C19: the tick path never checks a Trade for an exit, nor submits an     *)
(* exit order for it, between the poller's write of entry_price and its    *)
(* write of quantity.                                                      *)
C19_FillConfirmationAtomic ==
    [][(pc = "idle" /\ pc' # "idle")
       => /\ \A i \in exit_checked' : poll[trades[i].entry_id] # "set_qty"
          /\ \A o \in exit_orders' : poll[o.entry_id] # "set_qty"]_vars

(* A run of _check_order_status for order o: it calls get_order_status and *)
(* either re-arms the timer or goes on to write the fill.                  *)
Polled(o) ==
    /\ poll[o] = "armed"
    /\ poll_count'[o] # poll_count[o] \/ poll'[o] # poll[o]

(* C20: get_order_status is called for an order, and its timer re-armed,   *)
(* only while the strategy is active and the order's Trade is neither      *)
(* confirmed filled nor closed.                                            *)
C20_PollCancelled ==
    [][\A o \in OrderIds :
          Polled(o)
          => /\ active
             /\ TradeOf(o) # 0
                => /\ trades[TradeOf(o)].entry_price = None
                   /\ trades[TradeOf(o)].status # "closed"]_vars

(* C21: TechnicalStrategy._check_signal returns 1 exactly when RSI < 30    *)
(* and macd_line > macd_signal, -1 exactly when RSI > 70 and macd_line <   *)
(* macd_signal, and 0 otherwise; RSI of 30 or 70, or equal MACD values,    *)
(* give 0.                                                                 *)
C21_TechnicalSignalStrict ==
    (strat_name = "Technical" /\ returned # <<>>)
    => /\ returned[1] \in {1, -1, 0}
       /\ returned[1] = 1 <=> (in_rsi < 30 /\ in_macd_line > in_macd_signal)
       /\ returned[1] = -1 <=> (in_rsi > 70 /\ in_macd_line < in_macd_signal)
       /\ (in_rsi \in {30, 70} \/ in_macd_line = in_macd_signal) => returned[1] = 0

C21_Witness ==
    /\ strat_name = "Technical" /\ returned = <<0>>
    /\ in_rsi = 30 /\ in_macd_line > in_macd_signal

(* C22: BreakoutStrategy._check_signal returns 1 exactly when the last     *)
(* close is above the previous high and the last volume above min_volume,  *)
(* -1 exactly when the last close is below the previous low and the last   *)
(* volume above min_volume, and 0 otherwise; with min_volume 5, previous   *)
(* high 10 and low 8 and last close 10.5, volume 6 gives 1 and volume 4    *)
(* gives 0 (prices in units of 0.5).                                       *)
C22_BreakoutSignal ==
    (strat_name = "Breakout" /\ returned # <<>>)
    => LET last == candles[Len(candles)]
           prev == candles[Len(candles) - 1]
       IN  /\ returned[1] \in {1, -1, 0}
           /\ returned[1] = 1 <=> (last.close > prev.high /\ last.volume > min_volume)
           /\ returned[1] = -1 <=> (last.close < prev.low /\ last.volume > min_volume)
           /\ last.volume = min_volume => returned[1] = 0
           /\ (min_volume = 5 /\ prev.high = 20 /\ prev.low = 16 /\ last.close = 21)
              => /\ last.volume = 6 => returned[1] = 1
                 /\ last.volume = 4 => returned[1] = 0

C22_Witness ==
    /\ strat_name = "Breakout" /\ returned = <<1>>
    /\ min_volume = 5 /\ candles[1].high = 20 /\ candles[1].low = 16
    /\ candles[2].close = 21 /\ candles[2].volume = 6

(* C23: the candle the Breakout signal read at index -1 is closed: once    *)
(* the signal has been evaluated after a tick, no later tick changes that  *)
(* candle.                                                                 *)
C23_BreakoutReadsClosedCandle ==
    [][(strat_name = "Breakout" /\ signal_evaluated /\ Len(candles) >= 2)
       => /\ Len(candles') >= Len(candles)
          /\ candles'[Len(candles)] = candles[Len(candles)]]_vars

(* C24: parse_trades called with an empty candle history raises and        *)
(* changes nothing: no candle is appended, the trades and                  *)
(* ongoing_position are as before, and check_trade is not reached.         *)
C24_EmptyHistoryFailsFast ==
    [][\A price \in Prices, size \in Sizes, timestamp \in TickTimes :
          (candles = <<>> /\ ParseTrades(price, size, timestamp))
          => /\ tick_type' = "raised"
             /\ candles' = <<>>
             /\ trades' = trades
             /\ ongoing_position' = ongoing_position
             /\ exit_orders' = {}
             /\ pc' = "idle"]_vars

C24_Witness == candles = <<>> /\ tick_type = "raised" /\ feed_ts = 60000

(* C25: the candle history is append-only: its length never decreases and  *)
(* every candle other than the last one is left unchanged by every step.   *)
C25_CandlesAppendOnly ==
    [][/\ Len(candles') >= Len(candles)
       /\ \A i \in 1 .. (Len(candles) - 1) : candles'[i] = candles[i]]_vars

(* A tick has changed the last candle of a history of two.                 *)
C25_Witness ==
    /\ Len(candles) = 2 /\ candles[1] = Seed2[1]
    /\ candles[2].close = 102 /\ candles[2].volume = 1

(* C26: when the answer to a request carries a non-zero code other than    *)
(* 40101, _rpc ends with ValueError on that attempt and sends no further   *)
(* request.                                                                *)
C26_OnlyAuthErrorsRetried ==
    [][(rpc_outcome = "running" /\ Len(rpc_log') = Len(rpc_log) + 1
        /\ Last(rpc_log').exc = "none" /\ Last(rpc_log').json
        /\ Last(rpc_log').code \notin {0, 40101})
       => rpc_outcome' = "ValueError"]_vars

(* C27: _rpc sends at most MAX_RETRIES requests, and when MAX_RETRIES      *)
(* attempts have all failed it ends with RuntimeError.                     *)
C27_RuntimeErrorAfterRetries ==
    /\ Len(rpc_log) <= MAX_RETRIES
    /\ (Len(rpc_log) = MAX_RETRIES /\ rpc_outcome \notin {"running", "return"})
       => rpc_outcome = "RuntimeError"

(* C28: whenever neither _open_position nor _check_tp_sl is running,       *)
(* ongoing_position is True iff some Trade is not closed; an exit order    *)
(* that was not confirmed leaves its Trade open and the flag True, and the *)
(* next tick that meets a threshold of that Trade submits an exit order    *)
(* again.                                                                  *)
C28_FlagIffOpenTrade ==
    [][/\ pc' # "append_trade"
          => (ongoing_position'
                <=> \E i \in 1 .. Len(trades') : trades'[i].status # "closed")
       /\ \A o \in exit_orders' :
             ~o.confirmed
             => /\ \E i \in 1 .. Len(trades') :
                      trades'[i].entry_id = o.entry_id /\ trades'[i].status = "open"
                /\ ongoing_position'
       /\ \A price \in Prices, size \in Sizes, timestamp \in TickTimes :
             \A o \in exit_orders :
                (/\ ~o.confirmed
                 /\ ParseTrades(price, size, timestamp)
                 /\ ExitDue(trades[TradeWithId(o.entry_id)].side,
                            trades[TradeWithId(o.entry_id)].entry_price, price))
                => \E n \in exit_orders' : n.entry_id = o.entry_id]_vars

C30_FillReachesItsTrade ==
    [][\A o \in OrderIds :
          /\ (poll[o] = "armed" /\ poll'[o] # "armed")
             => /\ poll'[o] = "set_price"
                /\ \E i \in 1 .. Len(trades) : trades[i].entry_id = o
          /\ (poll[o] = "set_price" /\ poll'[o] = "set_qty")
             => /\ trades[TradeOf(o)].entry_id = o
                /\ trades' = [trades EXCEPT ![TradeOf(o)].entry_price =
                                                poll_status[o].avg_price]
          /\ (poll[o] = "set_qty" /\ poll'[o] = "off")
             => /\ trades[TradeOf(o)].entry_id = o
                /\ trades' = [trades EXCEPT ![TradeOf(o)].quantity =
                                                poll_status[o].executed_qty]]_vars

====
